---- MODULE Spec2Model ----
(***************************************************************************)
(* Rule-to-behavior compiler of packages/cody (convert-rule-config-to-     *)
(* behavior.ts): translation of a rule configuration into the statements   *)
(* of an aggregate behavior function, and the execution of the generated   *)
(* statements.                                                             *)
(*                                                                         *)
(* Text is modelled as a sequence of tokens (strings); template literals   *)
(* and += become \o.  Names that the code takes apart (event names, node   *)
(* names) are sequences of one-character strings.  A JavaScript value is a *)
(* record carrying its typeof.                                             *)
(***************************************************************************)
EXTENDS Naturals, Sequences, FiniteSets, TLC

VARIABLES
  aggregate,          \* the aggregate node: its name and its outgoing event targets
  ctx,                \* the cody context: what service resolution gives for the node
  rules,              \* the rule list handed to the compiler
  initialVariables,   \* the variable list handed to the compiler
  result,             \* what the last compile returned (NotCompiled before any)
  lines,              \* the compiler's local `lines` array when it returned
  compiledNode,       \* the aggregate node as the last compile was given it
  code,               \* the statements of the behavior function being executed
  pc,                 \* index of the next statement to execute, 0 when not running
  env,                \* expressions that evaluate to a truthy value in this run
  yielded,            \* events the running behavior function has yielded, in order
  finished,           \* TRUE once the behavior function has returned
  config,             \* AppSettingsModal: the configuration held by the config store
  appName,            \* the app name as edited in the dialog
  themeOptions,       \* the theme text as edited in the dialog
  invalidThemeOptions,\* the invalid-theme flag of the dialog
  propsOpen,               \* props.open: the dialog is shown
  effectDue,          \* config.appName or config.theme changed since the effect last ran
  storage,            \* local storage: the configuration saved for each board
  dispatched,         \* the actions the last event handler dispatched to the store
  written             \* the configurations the last event handler wrote to local storage

compilerVars == <<aggregate, ctx, rules, initialVariables, result, lines, compiledNode,
                  code, pc, env, yielded, finished>>

settingsVars == <<config, appName, themeOptions, invalidThemeOptions, propsOpen, effectDue,
                  storage, dispatched, written>>

vars == <<compilerVars, settingsVars>>

(***************************************************************************)
(* Bounds of the model.                                                    *)
(***************************************************************************)
MaxNodes == 3       \* rules in a rule tree, nested ones included
MaxVars == 2        \* initial variables
MaxProps == 2       \* fields of an object mapping

(***************************************************************************)
(* JavaScript values.                                                      *)
(***************************************************************************)
Error == "Error"

Str(tokens) == [typeof |-> "string", value |-> tokens]

True == [typeof |-> "boolean", value |-> TRUE]

Undefined == [typeof |-> "undefined"]

isCodyError(res) ==
  /\ res.typeof = "object"
  /\ "cody" \in DOMAIN res
  /\ "type" \in DOMAIN res
  /\ res.type = Error

CodyResponse(cody, details) ==
  [typeof |-> "object", cody |-> cody, type |-> Error, details |-> details]

(***************************************************************************)
(* names(): the identifier forms of a raw name.                            *)
(***************************************************************************)
UpperOf == [c \in {"o", "k", "n"} |-> CASE c = "o" -> "O" [] c = "k" -> "K" [] c = "n" -> "N"]

LowerOf == [c \in {"O", "K", "N"} |-> CASE c = "O" -> "o" [] c = "K" -> "k" [] c = "N" -> "n"]

toUpperCase(c) == IF c \in DOMAIN UpperOf THEN UpperOf[c] ELSE c

toLowerCase(c) == IF c \in DOMAIN LowerOf THEN LowerOf[c] ELSE c

isAlphaNum(c) == c \in (DOMAIN UpperOf) \cup (DOMAIN LowerOf)

RECURSIVE camelize(_, _)
\* Drops every run of non-alphanumeric characters and upper-cases the
\* character that follows the run.
camelize(s, afterSeparator) ==
  IF s = <<>> THEN <<>>
  ELSE IF ~isAlphaNum(Head(s)) THEN camelize(Tail(s), TRUE)
  ELSE <<IF afterSeparator THEN toUpperCase(Head(s)) ELSE Head(s)>>
         \o camelize(Tail(s), FALSE)

toPropertyName(s) ==
  LET c == camelize(s, FALSE)
  IN  IF c = <<>> THEN c ELSE <<toLowerCase(Head(c))>> \o Tail(c)

toClassName(s) ==
  LET p == toPropertyName(s)
  IN  IF p = <<>> THEN p ELSE <<toUpperCase(Head(p))>> \o Tail(p)

names(name) ==
  [name |-> name, className |-> toClassName(name), propertyName |-> toPropertyName(name)]

\* String.prototype.split("."): the parts between the dots.
RECURSIVE split(_, _)
split(s, sep) ==
  IF \A i \in 1..Len(s) : s[i] # sep THEN <<s>>
  ELSE LET i == CHOOSE k \in 1..Len(s) : s[k] = sep /\ \A j \in 1..(k - 1) : s[j] # sep
       IN  <<SubSeq(s, 1, i - 1)>> \o split(SubSeq(s, i + 1, Len(s)), sep)

(***************************************************************************)
(* The collaborators: service resolution and the graph lookup.             *)
(***************************************************************************)
detectService(node, context) == context.service

getTargetsOfType(node, type, includeChildren) ==
  IF node.lookup.typeof = "object" THEN node.lookup
  ELSE [typeof |-> "list", nodes |-> node.targets]

(***************************************************************************)
(* configuration.ts: the shape predicates of rules and then-actions.       *)
(***************************************************************************)
isIfConditionRule(rule) == "if" \in DOMAIN rule

isIfNotConditionRule(rule) == "if_not" \in DOMAIN rule

isRecordEvent(then) == "record" \in DOMAIN then

isExecuteRules(then) == "execute" \in DOMAIN then

(***************************************************************************)
(* The compiler.  Every convert* operator returns [ret, lines]: the value  *)
(* the function returns and the `lines` array as the call leaves it.       *)
(***************************************************************************)
wrapExpression(expr) == <<"await jexl.eval(\"", expr, "\", ctx)">>

RECURSIVE propMapEntriesReversed(_, _)
\* propMapEntries that prepends each entry instead of appending it.
propMapEntriesReversed(props, indent) ==
  IF props = <<>> THEN <<>>
  ELSE propMapEntriesReversed(Tail(props), indent)
         \o indent \o <<"  \"", Head(props).name, "\": ">>
         \o wrapExpression(Head(props).expr) \o <<",\n">>

RECURSIVE propMapEntries(_, _)
\* The body of the for-in loop of convertMapping, over the own properties
\* of the mapping in their enumeration order.
propMapEntries(props, indent) ==
  IF props = <<>> THEN <<>>
  ELSE indent \o <<"  \"", Head(props).name, "\": ">>
         \o wrapExpression(Head(props).expr) \o <<",\n">>
         \o propMapEntries(Tail(props), indent)

convertMapping(node, context, mapping, rule, indent) ==
  IF mapping.typeof = "string" THEN Str(wrapExpression(mapping.value))
  ELSE Str(<<"{\n">> \o propMapEntries(mapping.props, indent) \o indent \o <<"}">>)

\* eventExistsAmong that compares the raw names.
eventExistsAmongRawNames(events, eventNames) ==
  \E evt \in events.nodes : names(evt).name = eventNames.name

\* events.forEach(evt => ...): whether an event of the class name is among
\* the targets.
eventExistsAmong(events, eventNames) ==
  \E evt \in events.nodes : names(evt).className = eventNames.className

\* eventNameParts that splits at the path separator.
eventNamePartsBySlash(event) == split(event, "/")

\* then.record.event.split(".")
eventNameParts(event) == split(event, ".")

\* convertThenRecordEvent that looks for the dot before it resolves the
\* service.
convertThenRecordEventDotFirst(node, context, then, rule, ls, indent) ==
  LET service == detectService(node, context)
      eventNames == names(then.record.event)
      events == getTargetsOfType(node, "event", TRUE)
      eventExists == eventExistsAmong(events, eventNames)
      mapping == convertMapping(node, context, then.record.mapping, rule, indent)
  IN  IF Len(eventNameParts(then.record.event)) > 1
      THEN [ret |-> CodyResponse(
                      <<"Please don't use a dot in the event name of a record:event rule. I found one in the rule: ",
                        rule, " of aggregate \"", node.name, "\"">>,
                      <<"You don't have to provide the full event name including service and aggregate.">>),
            lines |-> ls]
      ELSE IF isCodyError(service) THEN [ret |-> service, lines |-> ls]
      ELSE IF isCodyError(events) THEN [ret |-> events, lines |-> ls]
      ELSE IF ~eventExists
      THEN [ret |-> CodyResponse(
                      <<"The event \"", then.record.event, "\" specified in the rule: ", rule,
                        " of aggregate \"", node.name, "\" is not known for that aggregate">>,
                      <<"An aggregate can only record events that are connected to it with an arrow pointing from the aggregate to the event.">>),
            lines |-> ls]
      ELSE IF isCodyError(mapping) THEN [ret |-> mapping, lines |-> ls]
      ELSE [ret |-> Undefined,
            lines |-> Append(ls, indent \o <<"yield ">> \o eventNames.propertyName
                                   \o <<"(">> \o mapping.value \o <<");">>)]

convertThenRecordEvent(node, context, then, rule, ls, indent) ==
  LET service == detectService(node, context)
      eventNames == names(then.record.event)
      events == getTargetsOfType(node, "event", TRUE)
      eventExists == eventExistsAmong(events, eventNames)
      mapping == convertMapping(node, context, then.record.mapping, rule, indent)
  IN  IF isCodyError(service) THEN [ret |-> service, lines |-> ls]
      ELSE IF Len(eventNameParts(then.record.event)) > 1
      THEN [ret |-> CodyResponse(
                      <<"Please don't use a dot in the event name of a record:event rule. I found one in the rule: ",
                        rule, " of aggregate \"", node.name, "\"">>,
                      <<"You don't have to provide the full event name including service and aggregate. I'm using service \"",
                        service.value, "\" and aggregate name: \"", node.name, "\" for that event.">>),
            lines |-> ls]
      ELSE IF isCodyError(events) THEN [ret |-> events, lines |-> ls]
      ELSE IF ~eventExists
      THEN [ret |-> CodyResponse(
                      <<"The event \"", then.record.event, "\" specified in the rule: ", rule,
                        " of aggregate \"", node.name, "\" is not known for that aggregate">>,
                      <<"An aggregate can only record events that are connected to it with an arrow pointing from the aggregate to the event.">>),
            lines |-> ls]
      ELSE IF isCodyError(mapping) THEN [ret |-> mapping, lines |-> ls]
      ELSE [ret |-> Undefined,
            lines |-> Append(ls, indent \o <<"yield ">> \o eventNames.propertyName
                                   \o <<"(">> \o mapping.value \o <<");">>)]

RECURSIVE convertRule(_, _, _, _, _)
RECURSIVE convertConditionRule(_, _, _, _, _)
RECURSIVE convertThen(_, _, _, _, _)
RECURSIVE convertThenExecuteRules(_, _, _, _, _, _)
RECURSIVE executeRulesLoop(_, _, _, _, _)

RECURSIVE executeRulesLoopUnchecked(_, _, _, _, _)
\* executeRulesLoop without the isCodyError check on each rule's outcome.
executeRulesLoopUnchecked(node, context, rest, ls, indent) ==
  IF rest = <<>> THEN [ret |-> True, lines |-> ls]
  ELSE executeRulesLoopUnchecked(node, context, Tail(rest),
                                 convertRule(node, context, Head(rest), ls, indent).lines,
                                 indent)

RECURSIVE executeRulesLoopReversed(_, _, _, _, _)
\* executeRulesLoop that visits the nested rules last to first.
executeRulesLoopReversed(node, context, rest, ls, indent) ==
  IF rest = <<>> THEN [ret |-> True, lines |-> ls]
  ELSE LET later == executeRulesLoopReversed(node, context, Tail(rest), ls, indent)
       IN  IF isCodyError(later.ret) THEN later
           ELSE LET success == convertRule(node, context, Head(rest), later.lines, indent)
                IN  IF isCodyError(success.ret) THEN success
                    ELSE [ret |-> True, lines |-> success.lines]

\* The for-of loop of convertThenExecuteRules over the rules not yet visited.
executeRulesLoop(node, context, rest, ls, indent) ==
  IF rest = <<>> THEN [ret |-> True, lines |-> ls]
  ELSE LET success == convertRule(node, context, Head(rest), ls, indent)
       IN  IF isCodyError(success.ret) THEN success
           ELSE executeRulesLoop(node, context, Tail(rest), success.lines, indent)

convertThenExecuteRules(node, context, then, rule, ls, indent) ==
  executeRulesLoop(node, context, then.execute.rules, ls, indent)

\* convertThen that takes an unknown then-action for an empty one.
convertThenLenient(node, context, rule, ls, indent) ==
  LET then == rule.then
  IN  IF isRecordEvent(then)
      THEN convertThenRecordEvent(node, context, then, rule, ls, indent)
      ELSE IF isExecuteRules(then)
      THEN convertThenExecuteRules(node, context, then, rule, ls, indent)
      ELSE [ret |-> True, lines |-> ls]

convertThen(node, context, rule, ls, indent) ==
  LET then == rule.then
  IN  IF isRecordEvent(then)
      THEN convertThenRecordEvent(node, context, then, rule, ls, indent)
      ELSE IF isExecuteRules(then)
      THEN convertThenExecuteRules(node, context, then, rule, ls, indent)
      ELSE [ret |-> CodyResponse(
                      <<"I don't know the \"then\" part of that rule: ", rule, ".">>,
                      <<"Looks like a typo on your side. I can only perform the actions: record: event, throw: error, assign: variable, trigger: command, perform: query, execute: rules">>),
            lines |-> ls]

convertAlwaysRule(node, context, rule, ls, indent) ==
  convertThen(node, context, rule, ls, indent)

\* ifLine that drops the polarity of the condition.
ifLinePositive(ifCondition, expr, indent) ==
  indent \o <<"if (", "(">> \o wrapExpression(expr) \o <<")) {">>

\* The statement that opens the conditional of a condition rule.
ifLine(ifCondition, expr, indent) ==
  indent \o <<ifCondition, "(">> \o wrapExpression(expr) \o <<")) {">>

\* stopOf that never sees the stop flag.
stopOfIgnored(rule) == FALSE

stopOf(rule) == "stop" \in DOMAIN rule /\ rule.stop

\* convertConditionRule that emits the early exit after the closing brace.
convertConditionRuleReturnAfterBlock(node, context, rule, ls, indent) ==
  IF ~isIfConditionRule(rule) /\ ~isIfNotConditionRule(rule)
  THEN [ret |-> CodyResponse(<<"I don't know how to handle a condition rule">>, <<>>),
        lines |-> ls]
  ELSE LET ifCondition == IF isIfConditionRule(rule) THEN "if (" ELSE "if (!"
           expr == IF isIfConditionRule(rule) THEN rule.if ELSE rule.if_not
           opened == Append(ls, ifLine(ifCondition, expr, indent))
           then == convertThen(node, context, rule, opened, indent \o <<"  ">>)
           closed == Append(then.lines, indent \o <<"}">>)
       IN  IF isCodyError(then.ret) THEN then
           ELSE [ret |-> True,
                 lines |-> IF stopOf(rule)
                           THEN Append(closed, indent \o <<"  ", "return;">>)
                           ELSE closed]

convertConditionRule(node, context, rule, ls, indent) ==
  IF ~isIfConditionRule(rule) /\ ~isIfNotConditionRule(rule)
  THEN [ret |-> CodyResponse(
                  <<"I don't know how to handle a condition rule that neither has an \"if\" nor a \"if_not\" condition defined: \"",
                    rule, "\".">>,
                  <<"Looks like a mistake on your side. Please check the rules of ",
                    node.type, ": \"", node.name, "\"">>),
        lines |-> ls]
  ELSE LET ifCondition == IF isIfConditionRule(rule) THEN "if (" ELSE "if (!"
           expr == IF isIfConditionRule(rule) THEN rule.if ELSE rule.if_not
           opened == Append(ls, ifLine(ifCondition, expr, indent))
           then == convertThen(node, context, rule, opened, indent \o <<"  ">>)
           stopped == IF stopOf(rule)
                      THEN Append(then.lines, indent \o <<"  ", "return;">>)
                      ELSE then.lines
       IN  IF isCodyError(then.ret) THEN then
           ELSE [ret |-> True, lines |-> Append(stopped, indent \o <<"}">>)]

convertRule(node, context, rule, ls, indent) ==
  CASE rule.rule = "always" -> convertAlwaysRule(node, context, rule, ls, indent)
    [] rule.rule = "condition" -> convertConditionRule(node, context, rule, ls, indent)
    [] OTHER ->
         [ret |-> CodyResponse(
                    <<"I don't know how to handle a rule of type \"", rule.rule, "\".">>,
                    <<"Looks like a typo on your side. I can handle the following rule types: always, condition, validate">>),
          lines |-> ls]

RECURSIVE variableLinesReversed(_, _)
\* variableLines that emits the initializers last to first.
variableLinesReversed(variables, indent) ==
  IF variables = <<>> THEN <<>>
  ELSE variableLinesReversed(Tail(variables), indent)
         \o <<indent \o <<"ctx['", Head(variables).name, "'] = ", Head(variables).initializer, ";">>>>

RECURSIVE variableLines(_, _)
\* initialVariables.forEach(variable => lines.push(...))
variableLines(variables, indent) ==
  IF variables = <<>> THEN <<>>
  ELSE <<indent \o <<"ctx['", Head(variables).name, "'] = ", Head(variables).initializer, ";">>>>
         \o variableLines(Tail(variables), indent)

RECURSIVE join(_, _)
\* Array.prototype.join
join(ls, sep) ==
  IF ls = <<>> THEN <<>>
  ELSE IF Len(ls) = 1 THEN Head(ls)
  ELSE Head(ls) \o <<sep>> \o join(Tail(ls), sep)

RECURSIVE rulesLoop(_, _, _, _, _)
\* The for-of loop of convertRuleConfigToAggregateBehavior over the rules not
\* yet visited.
rulesLoop(node, context, rest, ls, indent) ==
  IF rest = <<>>
  THEN LET done == Append(ls, <<>>)
       IN  [ret |-> Str(join(done, "\n")), lines |-> done]
  ELSE LET res == convertRule(node, context, Head(rest), Append(ls, <<>>), indent)
       IN  IF isCodyError(res.ret) THEN res
           ELSE rulesLoop(node, context, Tail(rest), res.lines, indent)

DefaultIndent == <<"  ">>

\* The compiler without its early return for an empty rule list.
convertRuleConfigAlwaysDeclaring(node, context, rs, variables, indent) ==
  rulesLoop(node, context, rs,
            <<indent \o <<"const ctx: any = {};">>>> \o variableLines(variables, indent),
            indent)

convertRuleConfigToAggregateBehavior(node, context, rs, variables, indent) ==
  IF Len(rs) = 0 THEN [ret |-> Str(<<>>), lines |-> <<>>]
  ELSE rulesLoop(node, context, rs,
                 <<indent \o <<"const ctx: any = {};">>>> \o variableLines(variables, indent),
                 indent)

(***************************************************************************)
(* The generated statements, executed as the body of the aggregate         *)
(* behavior function (an async generator).                                 *)
(***************************************************************************)
RECURSIVE trimIndent(_)
trimIndent(line) ==
  IF line # <<>> /\ Head(line) = "  " THEN trimIndent(Tail(line)) ELSE line

statementAt(i) == trimIndent(code[i])

isBlank(st) == st = <<>>

isNamespaceDeclaration(st) == st # <<>> /\ st[1] = "const ctx: any = {};"

isAssignment(st) == st # <<>> /\ st[1] = "ctx['"

isIf(st) == st # <<>> /\ st[1] \in {"if (", "if (!"}

isYield(st) == st # <<>> /\ st[1] = "yield "

isReturn(st) == st # <<>> /\ st[1] = "return;"

isClose(st) == st # <<>> /\ st[1] = "}"

\* The value of the condition of an if statement when the expressions of
\* `truthy` evaluate to a truthy value and all others to a falsy one.
conditionHolds(st, truthy) ==
  IF st[1] = "if (" THEN st[4] \in truthy ELSE ~(st[4] \in truthy)

RECURSIVE closingBrace(_, _, _)
\* The index of the "}" that closes the block opened before statement i,
\* `depth` blocks being open at i.
closingBrace(cd, i, depth) ==
  IF i > Len(cd) THEN i
  ELSE LET st == trimIndent(cd[i])
       IN  IF isIf(st) THEN closingBrace(cd, i + 1, depth + 1)
           ELSE IF isClose(st)
           THEN IF depth = 1 THEN i ELSE closingBrace(cd, i + 1, depth - 1)
           ELSE closingBrace(cd, i + 1, depth)

\* yield <propertyName>(<payload>);
yieldedEvent(st) ==
  LET open == CHOOSE k \in 2..Len(st) : st[k] = "(" /\ \A j \in 2..(k - 1) : st[j] # "("
  IN  [event |-> SubSeq(st, 2, open - 1), payload |-> SubSeq(st, open + 1, Len(st) - 1)]

(***************************************************************************)
(* The inputs the model draws.                                             *)
(***************************************************************************)
Exprs == {"a", "b"}

EventOk == <<"O", "k">>

EventNo == <<"N", "o">>

EventDot == <<"O", ".", "k">>

\* Names of event nodes that can be targets of the aggregate.
TargetNames == {<<"o", "k">>, <<"N", "o">>, <<"O", ".", "k">>}

StringMapping(e) == [typeof |-> "string", value |-> e]

ObjectMapping(props) == [typeof |-> "object", props |-> props]

PropNames == {"x", "y", "z"}

Props == [name : PropNames, expr : Exprs]

\* Property lists of at most n properties with pairwise different names.
PropLists(n) ==
  UNION { { p \in [1..k -> Props] : \A i, j \in 1..k : i # j => p[i].name # p[j].name }
          : k \in 0..n }

Mappings == {StringMapping(e) : e \in Exprs} \cup {ObjectMapping(p) : p \in PropLists(MaxProps)}

Record(event, mapping) == [record |-> [event |-> event, mapping |-> mapping]]

Execute(rs) == [execute |-> [rules |-> rs]]

RecordOk == Record(EventOk, StringMapping("a"))

RecordNo == Record(EventNo, ObjectMapping(<<[name |-> "x", expr |-> "a"], [name |-> "y", expr |-> "b"]>>))

RecordDot == Record(EventDot, StringMapping("b"))

Throw == [throw |-> [error |-> "a"]]

With(form, then) == form @@ ("then" :> then)

Always == [rule |-> "always"]

If(e) == [rule |-> "condition", if |-> e]

IfStop(e) == [rule |-> "condition", if |-> e, stop |-> TRUE]

IfNot(e) == [rule |-> "condition", if_not |-> e]

IfNotStop(e) == [rule |-> "condition", if_not |-> e, stop |-> TRUE]

Both == [rule |-> "condition", if |-> "a", if_not |-> "b", stop |-> FALSE]

Neither == [rule |-> "condition"]

Validate == [rule |-> "validate"]

\* The rules without nested rules that rule trees are built from.
Leaves ==
  { With(Always, t) : t \in {RecordOk, RecordDot, Throw} }
    \cup { With(f, RecordOk) : f \in {IfStop("a"), Neither} }
    \cup { With(IfNot("b"), RecordNo) }

\* Further rules, compiled on their own.
SingleRules ==
  { With(Both, RecordOk), With(Both, RecordNo), With(IfNotStop("b"), RecordNo),
    With(If("b"), Throw), With(IfNot("a"), RecordDot), With(Validate, Throw),
    With(Neither, Execute(<<>>)), With(Both, Execute(<<With(Always, RecordNo)>>)),
    With(Neither, Execute(<<With(Validate, Throw)>>)),
    With(Validate, Execute(<<With(Always, RecordDot)>>)),
    With(Validate, RecordOk), With(Always, RecordNo), With(If("a"), RecordOk),
    With(Always, Execute(<<With(Validate, RecordOk)>>)),
    With(IfNot("b"), Execute(<<With(If("a"), Throw)>>)),
    With(If("a"), Execute(<<With(Always, RecordDot)>>)) }

\* The rules that nest a rule list, without their then-action.
Wrappers == {Always, If("a"), IfStop("b")}

\* Rules that compile on a graph that connects every event.
SoundLeaves ==
  { With(Always, RecordOk), With(Always, RecordNo), With(If("a"), RecordOk),
    With(IfStop("a"), RecordOk), With(IfNot("b"), RecordNo) }

RECURSIVE Size(_)
RECURSIVE SizeOfList(_)
\* The number of rules of a rule tree.
Size(rule) ==
  IF isExecuteRules(rule.then) THEN 1 + SizeOfList(rule.then.execute.rules) ELSE 1

SizeOfList(rs) == IF rs = <<>> THEN 0 ELSE Size(Head(rs)) + SizeOfList(Tail(rs))

RECURSIVE RuleTrees(_)
RECURSIVE RuleLists(_)
\* The rule trees of at most n rules, n >= 1.
RuleTrees(n) ==
  Leaves \cup { With(w, Execute(rs)) : w \in Wrappers, rs \in RuleLists(n - 1) }

\* The rule lists of at most n rules in all.
RuleLists(n) ==
  IF n = 0 THEN {<<>>}
  ELSE {<<>>} \cup UNION { { <<t>> \o rs : rs \in RuleLists(n - Size(t)) } : t \in RuleTrees(n) }

Variables == { [name |-> "count", initializer |-> "0"],
               [name |-> "total", initializer |-> "ctx['count']"] }

VariableLists == UNION { [1..k -> Variables] : k \in 0..MaxVars }

ServiceName == Str(<<"Shop">>)

ServiceError ==
  CodyResponse(<<"Cannot detect the service of the node">>, <<"detectService">>)

LookupError ==
  CodyResponse(<<"Cannot look up the targets of the node">>, <<"getTargetsOfType">>)

AggregateName == <<"K", "o">>

Node(targets, lookup) ==
  [name |-> AggregateName, type |-> "aggregate", targets |-> targets, lookup |-> lookup]

NotCompiled == [typeof |-> "undefined"]

Contexts == {[service |-> ServiceName], [service |-> ServiceError]}

HealthyContext == [service |-> ServiceName]

Graphs ==
  [node : {Node(t, l) : t \in SUBSET TargetNames, l \in {Undefined, LookupError}},
   context : Contexts]

\* One rule recording an event under each mapping, at each nesting depth.
MappingRuleLists ==
  UNION { { <<With(Always, Record(EventOk, m))>>,
            <<With(IfNot("a"), Record(EventOk, m))>>,
            <<With(If("a"), Execute(<<With(IfStop("b"), Record(EventNo, m))>>))>> }
          : m \in Mappings }

\* A rule nesting two rules, followed by a rule of the outer list.
FollowedLists ==
  { <<With(w, Execute(<<n[1], n[2]>>)), n[3]>> :
      w \in Wrappers \cup {IfNot("b")}, n \in [1..3 -> SoundLeaves] }

FullNode == Node(TargetNames, Undefined)

(***************************************************************************)
(* The app settings dialog of packages/play (AppSettingsModal.tsx).  JSON  *)
(* text is a sequence of tokens: a punctuation mark, one white-space       *)
(* character, `null`, or the content of a string between two quote tokens. *)
(***************************************************************************)
Null == [typeof |-> "null"]

JSONString(s) == [typeof |-> "string", value |-> s]

JSONObject(props) == [typeof |-> "object", props |-> props]

isWhitespace(token) == token \in {" ", "\n"}

notWhitespace(token) == ~isWhitespace(token)

stringLiteral(s) == <<"\"", s, "\"">>

\* JSON.stringify of a scalar.
stringifyScalar(value) ==
  IF value.typeof = "null" THEN <<"null">> ELSE stringLiteral(value.value)

RECURSIVE stringifyMembers(_, _)
\* The members of an object, JSON.stringify's way for the given indentation.
stringifyMembers(props, space) ==
  IF props = <<>> THEN <<>>
  ELSE LET key == stringLiteral(Head(props).name)
           value == stringifyScalar(Head(props).value)
           member == IF space = 0 THEN key \o <<":">> \o value
                     ELSE [i \in 1..space |-> " "] \o key \o <<":", " ">> \o value
           separator == IF space = 0 THEN <<",">> ELSE <<",", "\n">>
       IN  IF Tail(props) = <<>> THEN member
           ELSE member \o separator \o stringifyMembers(Tail(props), space)

\* JSON.stringify(value, null, space); space = 0 is JSON.stringify(value).
JSONstringify(value, space) ==
  IF value.typeof # "object" THEN stringifyScalar(value)
  ELSE IF value.props = <<>> THEN <<"{", "}">>
  ELSE IF space = 0 THEN <<"{">> \o stringifyMembers(value.props, 0) \o <<"}">>
  ELSE <<"{", "\n">> \o stringifyMembers(value.props, space) \o <<"\n", "}">>

SyntaxError == [ok |-> FALSE]

Parsed(value) == [ok |-> TRUE, value |-> value]

isStringLiteral(ts) ==
  Len(ts) = 3 /\ ts[1] = "\"" /\ ts[3] = "\"" /\ ts[2] \notin {"\"", "{", "}", ":", ",", "null"}

\* A scalar at the head of the tokens: its value and the tokens it takes.
parseScalar(ts) ==
  IF ts # <<>> /\ ts[1] = "null" THEN [ok |-> TRUE, value |-> Null, taken |-> 1]
  ELSE IF Len(ts) >= 3 /\ isStringLiteral(SubSeq(ts, 1, 3))
  THEN [ok |-> TRUE, value |-> JSONString(ts[2]), taken |-> 3]
  ELSE [ok |-> FALSE]

RECURSIVE parseMembers(_, _)
\* The members between the braces of an object, after those of `props`.
parseMembers(ts, props) ==
  IF Len(ts) < 5 \/ ~isStringLiteral(SubSeq(ts, 1, 3)) \/ ts[4] # ":" THEN SyntaxError
  ELSE LET value == parseScalar(SubSeq(ts, 5, Len(ts)))
           member == [name |-> ts[2], value |-> value.value]
           rest == SubSeq(ts, 5 + value.taken, Len(ts))
       IN  IF ~value.ok THEN SyntaxError
           ELSE IF rest = <<>> THEN Parsed(JSONObject(Append(props, member)))
           ELSE IF rest[1] # "," THEN SyntaxError
           ELSE parseMembers(Tail(rest), Append(props, member))

\* JSON.parse: the value of the text, or the SyntaxError it throws.
JSONparse(text) ==
  LET ts == SelectSeq(text, notWhitespace)
      scalar == parseScalar(ts)
  IN  IF ts = <<>> THEN SyntaxError
      ELSE IF ts[1] = "{"
      THEN IF Len(ts) < 2 \/ ts[Len(ts)] # "}" THEN SyntaxError
           ELSE IF Len(ts) = 2 THEN Parsed(JSONObject(<<>>))
           ELSE parseMembers(SubSeq(ts, 2, Len(ts) - 1), <<>>)
      ELSE IF scalar.ok /\ scalar.taken = Len(ts) THEN Parsed(scalar.value)
      ELSE SyntaxError

\* The reducer of the config store for the two actions of the dialog.
reduce(cfg, action) ==
  IF action.type = "RENAME_APP" THEN [cfg EXCEPT !.appName = action.name]
  ELSE IF action.type = "CHANGE_THEME" THEN [cfg EXCEPT !.theme = action.theme]
  ELSE cfg

RECURSIVE reduceAll(_, _)
reduceAll(cfg, actions) ==
  IF actions = <<>> THEN cfg ELSE reduceAll(reduce(cfg, Head(actions)), Tail(actions))

\* What the dialog is given and what the user types.
AppNames == {"Cody Play", "Shop"}

EmptyTheme == JSONObject(<<>>)

DarkTheme == JSONObject(<<[name |-> "mode", value |-> JSONString("dark")]>>)

TwoFieldTheme ==
  JSONObject(<<[name |-> "mode", value |-> JSONString("light")],
               [name |-> "font", value |-> Null]>>)

Themes == {EmptyTheme, DarkTheme}

\* What the editor hands to its onChange: a string or undefined.
Text(tokens) == [typeof |-> "string", value |-> tokens]

InvalidTexts ==
  { <<"{">>,
    <<"{", "\"", "mode", "\"", ":", "}">>,
    <<"{", "\n", " ", " ", "\"", "mode", "\"", ":", " ", "\"", "dark", "\"", ",", "\n", "}">> }

ThemeTexts ==
  { JSONstringify(DarkTheme, 2), JSONstringify(DarkTheme, 0),
    JSONstringify(TwoFieldTheme, 2), <<"{", " ", "}">>, <<"null">> }
    \cup InvalidTexts

EditorTexts == { Text(t) : t \in ThemeTexts \cup {<<>>} } \cup {Undefined}

\* What currentBoardId() gives: the id of the board, or null.
BoardIds == {"board"}

BoardId(id) == [typeof |-> "string", value |-> id]

NoBoard == Null

NoConfig == [typeof |-> "undefined"]

Configs == [appName : AppNames, theme : Themes]

\* The dialog is not part of the run.
SettingsIdle ==
  /\ config = [appName |-> "Cody Play", theme |-> EmptyTheme]
  /\ appName = ""
  /\ themeOptions = JSONstringify(EmptyTheme, 2)
  /\ invalidThemeOptions = FALSE
  /\ propsOpen = FALSE
  /\ effectDue = FALSE
  /\ storage = [b \in BoardIds |-> NoConfig]
  /\ dispatched = <<>>
  /\ written = <<>>

\* The component as its first render leaves it, the effect not yet run.
SettingsInit ==
  /\ config \in Configs
  /\ appName = ""
  /\ themeOptions = JSONstringify(EmptyTheme, 2)
  /\ invalidThemeOptions = FALSE
  /\ propsOpen = TRUE
  /\ effectDue = TRUE
  /\ storage = [b \in BoardIds |-> NoConfig]
  /\ dispatched = <<>>
  /\ written = <<>>

\* useEffect(..., [config.appName, config.theme])
useEffect ==
  /\ effectDue
  /\ appName' = config.appName
  /\ themeOptions' = JSONstringify(config.theme, 2)
  /\ effectDue' = FALSE
  /\ UNCHANGED <<config, invalidThemeOptions, propsOpen, storage, dispatched, written>>
  /\ UNCHANGED compilerVars

\* The dialog takes an event of the user.
Interactive == propsOpen /\ ~effectDue

handleNameChanged(newName) ==
  /\ Interactive
  /\ appName' = newName
  /\ dispatched' = <<>>
  /\ written' = <<>>
  /\ UNCHANGED <<config, themeOptions, invalidThemeOptions, propsOpen, effectDue, storage>>
  /\ UNCHANGED compilerVars

\* The flag validateTheme sets.
validateTheme(themeOptionsStr) == ~JSONparse(themeOptionsStr).ok

handleThemeChanged(changedThemeOptions) ==
  LET changed == IF changedThemeOptions = Undefined \/ changedThemeOptions.value = <<>>
                 THEN <<"{", "}">>
                 ELSE changedThemeOptions.value
  IN  /\ Interactive
      /\ themeOptions' = changed
      /\ invalidThemeOptions' = IF invalidThemeOptions THEN validateTheme(changed)
                                ELSE invalidThemeOptions
      /\ dispatched' = <<>>
      /\ written' = <<>>
      /\ UNCHANGED <<config, appName, propsOpen, effectDue, storage>>
      /\ UNCHANGED compilerVars

\* disabled={...} of the Save button.
saveDisabled ==
  appName = config.appName /\ JSONstringify(config.theme, 2) = themeOptions

\* saveConfigToLocalStorage for each of the configurations, in order.
RECURSIVE saveAll(_, _, _)
saveAll(store, cfgs, boardId) ==
  IF cfgs = <<>> \/ boardId = NoBoard THEN store
  ELSE saveAll([store EXCEPT ![boardId.value] = Head(cfgs)], Tail(cfgs), boardId)

handleSave(boardId) ==
  LET renamed == appName # config.appName
      renameActions == IF renamed THEN <<[type |-> "RENAME_APP", name |-> appName]>> ELSE <<>>
      renameWrites == IF renamed /\ boardId # NoBoard
                      THEN <<[config EXCEPT !.appName = appName]>>
                      ELSE <<>>
      themeChanged == themeOptions # JSONstringify(config.theme, 0)
      updatedTheme == JSONparse(themeOptions)
      thrown == themeChanged /\ ~updatedTheme.ok
      themeActions == IF themeChanged /\ updatedTheme.ok
                      THEN <<[type |-> "CHANGE_THEME", theme |-> updatedTheme.value]>>
                      ELSE <<>>
      themeWrites == IF themeChanged /\ updatedTheme.ok /\ boardId # NoBoard
                     THEN <<[config EXCEPT !.appName = appName, !.theme = updatedTheme.value]>>
                     ELSE <<>>
  IN  /\ Interactive
      /\ ~saveDisabled
      /\ dispatched' = renameActions \o themeActions
      /\ written' = renameWrites \o themeWrites
      /\ config' = reduceAll(config, dispatched')
      /\ storage' = saveAll(storage, written', boardId)
      /\ effectDue' = (dispatched' # <<>>)
      /\ invalidThemeOptions' = IF thrown THEN TRUE ELSE invalidThemeOptions
      /\ propsOpen' = IF thrown THEN propsOpen ELSE FALSE
      /\ UNCHANGED <<appName, themeOptions>>
      /\ UNCHANGED compilerVars

\* The Close button, the X and the backdrop: onClick={props.onClose}.
handleClose ==
  /\ Interactive
  /\ propsOpen' = FALSE
  /\ dispatched' = <<>>
  /\ written' = <<>>
  /\ UNCHANGED <<config, appName, themeOptions, invalidThemeOptions, effectDue, storage>>
  /\ UNCHANGED compilerVars

Init ==
  /\ \/ /\ rules \in RuleLists(MaxNodes)
        /\ initialVariables = <<>>
        /\ aggregate = Node({}, Undefined)
        /\ ctx = HealthyContext
     \/ /\ rules \in RuleLists(MaxNodes - 2) \cup { <<r>> : r \in SingleRules }
        /\ initialVariables = <<>>
        /\ \E g \in Graphs : aggregate = g.node /\ ctx = g.context
     \/ /\ rules \in RuleLists(1) \cup { <<r>> : r \in SingleRules }
        /\ initialVariables \in VariableLists
        /\ aggregate = FullNode
        /\ ctx = HealthyContext
     \/ /\ rules \in MappingRuleLists \cup FollowedLists
        /\ initialVariables \in {<<>>, <<[name |-> "total", initializer |-> "ctx['count']"],
                                         [name |-> "count", initializer |-> "0"]>>}
        /\ aggregate = FullNode
        /\ ctx = HealthyContext
  /\ result = NotCompiled
  /\ lines = <<>>
  /\ compiledNode = aggregate
  /\ code = <<>>
  /\ pc = 0
  /\ env = {}
  /\ yielded = <<>>
  /\ finished = FALSE
  /\ SettingsIdle

(***************************************************************************)
(* The operations.                                                         *)
(***************************************************************************)
\* The code-generation hook compiles the rules of the aggregate.
Compile ==
  /\ pc = 0
  /\ LET res == convertRuleConfigToAggregateBehavior(aggregate, ctx, rules,
                                                     initialVariables, DefaultIndent)
     IN  /\ result' = res.ret
         /\ lines' = res.lines
  /\ compiledNode' = aggregate
  /\ UNCHANGED <<aggregate, ctx, rules, initialVariables, code, pc, env, yielded, finished>>
  /\ UNCHANGED settingsVars

\* The diagnostic of an event that is no target of the aggregate, and the
\* event name it quotes.
isUnknownEvent(res) == res.cody[1] = "The event \""

unknownEventOf(res) == res.cody[2]

\* After the diagnostic of an unknown event the modeller draws an arrow from
\* the aggregate to an event node of that name.
ConnectEvent(e) ==
  /\ pc = 0
  /\ isCodyError(result)
  /\ isUnknownEvent(result)
  /\ names(e).className = names(unknownEventOf(result)).className
  /\ e \notin aggregate.targets
  /\ aggregate' = [aggregate EXCEPT !.targets = @ \cup {e}]
  /\ UNCHANGED <<ctx, rules, initialVariables, result, lines, compiledNode, code, pc, env,
                 yielded, finished>>
  /\ UNCHANGED settingsVars

\* The behavior function holding the generated block is called.
Start(truthy) ==
  /\ pc = 0
  /\ result.typeof = "string"
  /\ code' = split(result.value, "\n")
  /\ pc' = 1
  /\ env' = truthy
  /\ yielded' = <<>>
  /\ finished' = FALSE
  /\ UNCHANGED <<aggregate, ctx, rules, initialVariables, result, lines, compiledNode>>
  /\ UNCHANGED settingsVars

Running == pc \in 1..Len(code) /\ ~finished

Advance(to) ==
  /\ pc' = to
  /\ UNCHANGED <<aggregate, ctx, rules, initialVariables, result, lines, compiledNode,
                 code, env, yielded, finished>>
  /\ UNCHANGED settingsVars

ExecBlank == Running /\ isBlank(statementAt(pc)) /\ Advance(pc + 1)

ExecNamespaceDeclaration ==
  Running /\ isNamespaceDeclaration(statementAt(pc)) /\ Advance(pc + 1)

ExecAssignment == Running /\ isAssignment(statementAt(pc)) /\ Advance(pc + 1)

ExecIf ==
  /\ Running
  /\ isIf(statementAt(pc))
  /\ IF conditionHolds(statementAt(pc), env)
     THEN Advance(pc + 1)
     ELSE Advance(closingBrace(code, pc + 1, 1) + 1)

ExecCloseBrace == Running /\ isClose(statementAt(pc)) /\ Advance(pc + 1)

ExecYield ==
  /\ Running
  /\ isYield(statementAt(pc))
  /\ yielded' = Append(yielded, yieldedEvent(statementAt(pc)))
  /\ pc' = pc + 1
  /\ UNCHANGED <<aggregate, ctx, rules, initialVariables, result, lines, compiledNode,
                 code, env, finished>>
  /\ UNCHANGED settingsVars

ExecReturn ==
  /\ Running
  /\ isReturn(statementAt(pc))
  /\ finished' = TRUE
  /\ UNCHANGED <<aggregate, ctx, rules, initialVariables, result, lines, compiledNode,
                 code, pc, env, yielded>>
  /\ UNCHANGED settingsVars

\* Control reaches the end of the function body.
ExecEnd ==
  /\ pc > Len(code)
  /\ ~finished
  /\ finished' = TRUE
  /\ UNCHANGED <<aggregate, ctx, rules, initialVariables, result, lines, compiledNode,
                 code, pc, env, yielded>>
  /\ UNCHANGED settingsVars

Next ==
  \/ Compile
  \/ \E e \in TargetNames : ConnectEvent(e)
  \/ \E truthy \in SUBSET Exprs : Start(truthy)
  \/ ExecBlank
  \/ ExecNamespaceDeclaration
  \/ ExecAssignment
  \/ ExecIf
  \/ ExecCloseBrace
  \/ ExecYield
  \/ ExecReturn
  \/ ExecEnd

Spec == Init /\ [][Next]_vars

\* The compiler is not part of the run.
CompilerIdle ==
  /\ aggregate = Node({}, Undefined)
  /\ ctx = HealthyContext
  /\ rules = <<>>
  /\ initialVariables = <<>>
  /\ result = NotCompiled
  /\ lines = <<>>
  /\ compiledNode = aggregate
  /\ code = <<>>
  /\ pc = 0
  /\ env = {}
  /\ yielded = <<>>
  /\ finished = FALSE

InitSettings == SettingsInit /\ CompilerIdle

NextSettings ==
  \/ useEffect
  \/ \E newName \in AppNames \cup {""} : handleNameChanged(newName)
  \/ \E text \in EditorTexts : handleThemeChanged(text)
  \/ \E boardId \in { BoardId(b) : b \in BoardIds } \cup {NoBoard} : handleSave(boardId)
  \/ handleClose

SpecSettings == InitSettings /\ [][NextSettings]_vars

(***************************************************************************)
(* Vocabulary of the properties: the rule tree read as the rule            *)
(* configuration describes it, independently of the compiler.              *)
(***************************************************************************)
RECURSIVE PreOrder(_)
\* The rules of a rule list in depth-first pre-order.
PreOrder(rs) ==
  IF rs = <<>> THEN <<>>
  ELSE <<Head(rs)>>
         \o (IF isExecuteRules(Head(rs).then) THEN PreOrder(Head(rs).then.execute.rules)
             ELSE <<>>)
         \o PreOrder(Tail(rs))

HasDot(event) == \E i \in 1..Len(event) : event[i] = "."

Declared(event, node) ==
  \E t \in node.targets : toClassName(t) = toClassName(event)

IsStructuralFault(rule) ==
  \/ rule.rule \notin {"always", "condition"}
  \/ rule.rule = "condition" /\ "if" \notin DOMAIN rule /\ "if_not" \notin DOMAIN rule
  \/ "record" \notin DOMAIN rule.then /\ "execute" \notin DOMAIN rule.then

IsRecordRule(rule) == ~IsStructuralFault(rule) /\ "record" \in DOMAIN rule.then

\* The rule itself is faulty (whatever its nested rules are).
OwnFault(rule, node, context) ==
  \/ IsStructuralFault(rule)
  \/ /\ IsRecordRule(rule)
     /\ \/ context.service # ServiceName
        \/ HasDot(rule.then.record.event)
        \/ node.lookup # Undefined
        \/ ~Declared(rule.then.record.event, node)

FaultyIndexes(pre, node, context) ==
  { k \in 1..Len(pre) : OwnFault(pre[k], node, context) }

Min(S) == CHOOSE k \in S : \A j \in S : k <= j

RECURSIVE RecordedEvents(_)
\* The property-style names of the events the record-event rules of a
\* sequence of rules record, in order.
RecordedEvents(pre) ==
  IF pre = <<>> THEN <<>>
  ELSE (IF IsRecordRule(Head(pre)) THEN <<toPropertyName(Head(pre).then.record.event)>>
        ELSE <<>>)
         \o RecordedEvents(Tail(pre))

RECURSIVE YieldStatements(_)
\* The yield statements among a sequence of lines, in order.
YieldStatements(ls) ==
  IF ls = <<>> THEN <<>>
  ELSE (IF isYield(trimIndent(Head(ls))) THEN <<yieldedEvent(trimIndent(Head(ls)))>> ELSE <<>>)
         \o YieldStatements(Tail(ls))

EventsOf(ys) == [i \in 1..Len(ys) |-> ys[i].event]

Compiled == result # NotCompiled

Succeeded == Compiled /\ result.typeof = "string"

Failed == Compiled /\ isCodyError(result)

(***************************************************************************)
(* C1: compilation is all-or-nothing and fail-fast.  A compile returns     *)
(* either a block holding the translation of every rule of the tree, or    *)
(* one diagnostic and no block; the diagnostic is the one of the first     *)
(* faulty rule in depth-first order, and no record-event rule after that   *)
(* rule has been translated when the compiler returns.                     *)
(***************************************************************************)
AllOrNothingFailFast ==
  Compiled =>
    LET pre == PreOrder(rules)
        faulty == FaultyIndexes(pre, compiledNode, ctx)
    IN  IF faulty = {}
        THEN /\ result.typeof = "string"
             /\ ~isCodyError(result)
             /\ EventsOf(YieldStatements(split(result.value, "\n"))) = RecordedEvents(pre)
        ELSE /\ isCodyError(result)
             /\ result.typeof # "string"
             /\ result = convertRule(compiledNode, ctx, pre[Min(faulty)], <<>>, <<>>).ret
             /\ EventsOf(YieldStatements(lines))
                  = RecordedEvents(SubSeq(pre, 1, Min(faulty) - 1))

\* A compile that met a faulty nested rule inside an opened conditional,
\* with another faulty rule after it in the outer list.
SeveralFaultsWitness ==
  /\ Failed
  /\ Len(rules) = 2
  /\ isExecuteRules(rules[1].then)
  /\ FaultyIndexes(PreOrder(rules), compiledNode, ctx) = {2, 3}
  /\ \E i \in 1..Len(lines) : isIf(trimIndent(lines[i]))

(***************************************************************************)
(* What running a rule list means according to the rule configuration:     *)
(* the events recorded, in order, when the expressions of `truthy` hold.   *)
(* With listScoped, a stop ends the rule list the stopping rule is in;     *)
(* without, it ends the whole behavior.                                    *)
(***************************************************************************)
Guard(rule, truthy) ==
  \/ rule.rule = "always"
  \/ rule.rule = "condition" /\ "if" \in DOMAIN rule /\ rule.if \in truthy
  \/ rule.rule = "condition" /\ "if" \notin DOMAIN rule /\ rule.if_not \notin truthy

Stops(rule) == rule.rule = "condition" /\ "stop" \in DOMAIN rule /\ rule.stop

RECURSIVE Behaviour(_, _, _)
Behaviour(rs, truthy, listScoped) ==
  IF rs = <<>> THEN [events |-> <<>>, ended |-> FALSE]
  ELSE LET r == Head(rs)
           own == IF "record" \in DOMAIN r.then
                  THEN [events |-> <<toPropertyName(r.then.record.event)>>, ended |-> FALSE]
                  ELSE Behaviour(r.then.execute.rules, truthy, listScoped)
           ended == Stops(r) \/ (own.ended /\ ~listScoped)
       IN  IF ~Guard(r, truthy) THEN Behaviour(Tail(rs), truthy, listScoped)
           ELSE IF ended THEN [events |-> own.events, ended |-> TRUE]
           ELSE LET rest == Behaviour(Tail(rs), truthy, listScoped)
                IN  [events |-> own.events \o rest.events, ended |-> rest.ended]

HasStop(rs) == \E k \in 1..Len(PreOrder(rs)) : Stops(PreOrder(rs)[k])

(***************************************************************************)
(* C2 as the specification states it: a stop that fires inside a nested    *)
(* execute-rules list skips only the remaining rules of that nested list;  *)
(* the rules after the enclosing rule still run.                           *)
(***************************************************************************)
StopEndsOnlyItsList ==
  finished => EventsOf(yielded) = Behaviour(rules, env, TRUE).events

(***************************************************************************)
(* C2 as the code has it: a stop that fires, at whatever nesting depth,    *)
(* ends the whole behavior function: after the events of the stopping      *)
(* rule no event is yielded, neither by its siblings nor by the rules      *)
(* after the enclosing rule.                                               *)
(***************************************************************************)
StopEndsBehaviour ==
  finished => EventsOf(yielded) = Behaviour(rules, env, FALSE).events

\* A run in which a nested stop fired and skipped a rule of the outer list
\* whose condition held.
NestedStopWitness ==
  /\ finished
  /\ HasStop(rules)
  /\ Behaviour(rules, env, TRUE).events # Behaviour(rules, env, FALSE).events

(***************************************************************************)
(* C3: polarity.  In a rule tree without stop, the then-action of an       *)
(* always rule runs unconditionally, that of a rule with `if: E` exactly   *)
(* when E is true, that of a rule with `if_not: E` exactly when E is       *)
(* false; a rule with both is guarded by its `if` alone.                   *)
(***************************************************************************)
Polarity ==
  (finished /\ ~HasStop(rules)) =>
    EventsOf(yielded) = Behaviour(rules, env, FALSE).events

\* A finished run of a rule with `if` and `if_not` whose `if` held although
\* its `if_not` expression was true as well.
PolarityWitness ==
  /\ finished
  /\ ~HasStop(rules)
  /\ \E k \in 1..Len(PreOrder(rules)) :
       {"if", "if_not"} \subseteq DOMAIN PreOrder(rules)[k]
  /\ env = Exprs
  /\ yielded # <<>>

(***************************************************************************)
(* C4: compiling an empty rule list returns the empty block, whatever the  *)
(* initial variables: no namespace declaration, no initializer, no         *)
(* diagnostic.                                                             *)
(***************************************************************************)
EmptyRulesEmptyBlock ==
  (Compiled /\ rules = <<>>) =>
    /\ result = Str(<<>>)
    /\ ~isCodyError(result)
    /\ lines = <<>>

EmptyRulesWitness ==
  Compiled /\ rules = <<>> /\ Len(initialVariables) = MaxVars

(***************************************************************************)
(* C5: a structural error anywhere in the rule tree (a condition rule      *)
(* with neither `if` nor `if_not`, an unknown rule kind, an unknown        *)
(* then-action) makes compile return a diagnostic of severity error and    *)
(* no block.                                                               *)
(***************************************************************************)
StructuralErrorsReported ==
  (Compiled /\ \E k \in 1..Len(PreOrder(rules)) : IsStructuralFault(PreOrder(rules)[k])) =>
    /\ isCodyError(result)
    /\ result.type = Error
    /\ result.typeof # "string"

\* A structural error inside a nested list, met after an earlier rule was
\* translated.
NestedStructuralErrorWitness ==
  /\ Failed
  /\ Len(rules) = 2
  /\ isExecuteRules(rules[2].then)
  /\ Len(PreOrder(rules)) = 3
  /\ IsStructuralFault(PreOrder(rules)[3])
  /\ FaultyIndexes(PreOrder(rules), compiledNode, ctx) = {3}
  /\ YieldStatements(lines) # <<>>

(***************************************************************************)
(* C7: a record-event action whose event name contains a dot makes compile *)
(* return a diagnostic and never a block, in every graph state.            *)
(***************************************************************************)
DotAlwaysFails ==
  (Compiled /\ \E k \in 1..Len(PreOrder(rules)) :
                 /\ "record" \in DOMAIN PreOrder(rules)[k].then
                 /\ HasDot(PreOrder(rules)[k].then.record.event)) =>
    /\ isCodyError(result)
    /\ result.typeof # "string"

\* The dotted event is the only fault: both collaborators answer and an
\* event node of that very name is a target of the aggregate.
DotWitness ==
  /\ Failed
  /\ ctx = HealthyContext
  /\ compiledNode.lookup = Undefined
  /\ EventDot \in compiledNode.targets
  /\ \E k \in 1..Len(PreOrder(rules)) :
       /\ IsRecordRule(PreOrder(rules)[k])
       /\ HasDot(PreOrder(rules)[k].then.record.event)
       /\ FaultyIndexes(PreOrder(rules), compiledNode, ctx) = {k}

(***************************************************************************)
(* C6: event existence.  A compile of rules that record an event which is  *)
(* no target of the aggregate (by class-style name) returns a diagnostic,  *)
(* the unknown-event diagnostic of that event when this is the first       *)
(* fault; once the modeller has connected the event and nothing else is    *)
(* faulty, compiling the same rules succeeds; and compiling again on an    *)
(* unchanged graph gives the same outcome.                                 *)
(***************************************************************************)
UndeclaredAt(pre, k, node) ==
  /\ IsRecordRule(pre[k])
  /\ ~HasDot(pre[k].then.record.event)
  /\ ~Declared(pre[k].then.record.event, node)

EventExistenceChecked ==
  [][Compile =>
       LET pre == PreOrder(rules)
           faulty == FaultyIndexes(pre, aggregate, ctx)
       IN  /\ (\E k \in 1..Len(pre) : UndeclaredAt(pre, k, aggregate)) => isCodyError(result')
           /\ (/\ faulty # {}
               /\ UndeclaredAt(pre, Min(faulty), aggregate)
               /\ ctx = HealthyContext
               /\ aggregate.lookup = Undefined) =>
                (/\ isCodyError(result')
                 /\ isUnknownEvent(result')
                 /\ unknownEventOf(result') = pre[Min(faulty)].then.record.event)
           /\ (/\ Failed
               /\ isUnknownEvent(result)
               /\ Declared(unknownEventOf(result), aggregate)
               /\ faulty = {}) => result'.typeof = "string"
           /\ (Compiled /\ compiledNode = aggregate) => result' = result
  ]_vars

\* The compile reported an unknown event, the modeller has connected an event
\* node whose name differs from the rule's in case only, and nothing else
\* is faulty.
EventConnectedWitness ==
  /\ Failed
  /\ isUnknownEvent(result)
  /\ ~Declared(unknownEventOf(result), compiledNode)
  /\ Declared(unknownEventOf(result), aggregate)
  /\ unknownEventOf(result) \notin aggregate.targets
  /\ FaultyIndexes(PreOrder(rules), aggregate, ctx) = {}

(***************************************************************************)
(* C8: nested execute-rules preserve order.  The conditionals and yields   *)
(* of the generated block are those of the rule tree in depth-first        *)
(* pre-order, each conditional enclosing exactly the statements of its own *)
(* then-action; and a run yields events in that order.                     *)
(***************************************************************************)
Marker(kind, arg) == [kind |-> kind, arg |-> arg]

RECURSIVE Outline(_)
\* The conditionals, yields and closing braces a rule list stands for.
Outline(rs) ==
  IF rs = <<>> THEN <<>>
  ELSE LET r == Head(rs)
           body == IF "record" \in DOMAIN r.then
                   THEN <<Marker("yield", toPropertyName(r.then.record.event))>>
                   ELSE Outline(r.then.execute.rules)
       IN  (IF r.rule = "always" THEN body
            ELSE <<Marker("if", IF "if" \in DOMAIN r THEN <<"if (", r.if>>
                                ELSE <<"if (!", r.if_not>>)>>
                   \o body \o <<Marker("}", <<>>)>>)
             \o Outline(Tail(rs))

RECURSIVE MarkersOf(_)
\* The conditionals, yields and closing braces among a sequence of lines.
MarkersOf(ls) ==
  IF ls = <<>> THEN <<>>
  ELSE LET st == trimIndent(Head(ls))
       IN  (IF isIf(st) THEN <<Marker("if", <<st[1], st[4]>>)>>
            ELSE IF isYield(st) THEN <<Marker("yield", yieldedEvent(st).event)>>
            ELSE IF isClose(st) THEN <<Marker("}", <<>>)>>
            ELSE <<>>)
             \o MarkersOf(Tail(ls))

RECURSIVE IsSubsequence(_, _)
IsSubsequence(s, t) ==
  IF s = <<>> THEN TRUE
  ELSE IF t = <<>> THEN FALSE
  ELSE IF Head(s) = Head(t) THEN IsSubsequence(Tail(s), Tail(t))
  ELSE IsSubsequence(s, Tail(t))

NestedOrderPreserved ==
  /\ Succeeded => MarkersOf(split(result.value, "\n")) = Outline(rules)
  /\ pc > 0 => IsSubsequence(EventsOf(yielded), RecordedEvents(PreOrder(rules)))

\* A finished run of a conditional over two nested rules that record
\* different events, both yielded, followed by a rule of the outer list.
NestedOrderWitness ==
  /\ finished
  /\ Len(rules) = 2
  /\ rules[1].rule = "condition"
  /\ isExecuteRules(rules[1].then)
  /\ Len(rules[1].then.execute.rules) = 2
  /\ Len(yielded) = 3
  /\ yielded[1].event # yielded[2].event

(***************************************************************************)
(* C9: namespace prologue.  A block generated for a non-empty rule list    *)
(* starts with the one declaration of `ctx`, followed by one assignment    *)
(* per initial variable in declaration order; no statement of a rule       *)
(* precedes them and no further declaration or assignment follows, nested  *)
(* lists included.                                                         *)
(***************************************************************************)
NamespacePrologue ==
  (Succeeded /\ rules # <<>>) =>
    LET cd == split(result.value, "\n")
        n == Len(initialVariables)
    IN  /\ Len(cd) > n + 1
        /\ isNamespaceDeclaration(trimIndent(cd[1]))
        /\ \A i \in 1..n :
             /\ isAssignment(trimIndent(cd[1 + i]))
             /\ trimIndent(cd[1 + i])[2] = initialVariables[i].name
             /\ trimIndent(cd[1 + i])[4] = initialVariables[i].initializer
        /\ \A i \in (n + 2)..Len(cd) :
             /\ ~isNamespaceDeclaration(trimIndent(cd[i]))
             /\ ~isAssignment(trimIndent(cd[i]))
        /\ \A i \in 2..(n + 1) : ~isNamespaceDeclaration(trimIndent(cd[i]))

\* A block for nested rules and two different variables.
NamespacePrologueWitness ==
  /\ Succeeded
  /\ Len(initialVariables) = 2
  /\ initialVariables[1] # initialVariables[2]
  /\ \E k \in 1..Len(rules) : isExecuteRules(rules[k].then)

(***************************************************************************)
(* C10: mapping translation is structure-preserving.  The payload of the   *)
(* i-th yield of a generated block is, for a string mapping, the one       *)
(* wrapped expression, and for an object mapping one entry per field, in   *)
(* the order of the mapping's fields, under the field's name, its value    *)
(* the wrapped evaluation of the field's expression against `ctx`.         *)
(***************************************************************************)
IsWrapped(tokens, expr) == tokens = <<"await jexl.eval(\"", expr, "\", ctx)">>

NotIndent(token) == token # "  "

PayloadMatches(payload, mapping) ==
  IF mapping.typeof = "string" THEN IsWrapped(payload, mapping.value)
  ELSE LET f == SelectSeq(payload, NotIndent)
           n == Len(mapping.props)
       IN  /\ Len(f) = 2 + 7 * n
           /\ f[1] = "{\n"
           /\ f[Len(f)] = "}"
           /\ \A i \in 1..n :
                LET at == 7 * (i - 1) + 1
                IN  /\ f[at + 1] = "  \""
                    /\ f[at + 2] = mapping.props[i].name
                    /\ f[at + 3] = "\": "
                    /\ IsWrapped(SubSeq(f, at + 4, at + 6), mapping.props[i].expr)
                    /\ f[at + 7] = ",\n"

RecordRules(pre) == SelectSeq(pre, IsRecordRule)

IsConditionRule(rule) == ~IsStructuralFault(rule) /\ rule.rule = "condition"

ConditionRules(pre) == SelectSeq(pre, IsConditionRule)

IfIndexes(cd) == { i \in 1..Len(cd) : isIf(trimIndent(cd[i])) }

ReturnIndexes(cd) == { i \in 1..Len(cd) : isReturn(trimIndent(cd[i])) }

\* The condition rule whose conditional opens at statement i.
RuleOfIf(cd, i) ==
  ConditionRules(PreOrder(rules))[Cardinality({ j \in IfIndexes(cd) : j <= i })]

\* The statement that opens the conditional whose last statement is j.
IfOfLast(cd, j) == CHOOSE i \in IfIndexes(cd) : closingBrace(cd, i + 1, 1) = j + 1

IndentOf(line) == SubSeq(line, 1, Len(line) - Len(trimIndent(line)))

\* The events the then-action of a rule yields when it runs to its end.
ThenEvents(rule, truthy) ==
  IF "record" \in DOMAIN rule.then THEN <<toPropertyName(rule.then.record.event)>>
  ELSE Behaviour(rule.then.execute.rules, truthy, FALSE).events

EndsWith(s, t) == Len(t) <= Len(s) /\ SubSeq(s, Len(s) - Len(t) + 1, Len(s)) = t

EarlyExitPlacement ==
  /\ Succeeded =>
       LET cd == split(result.value, "\n")
       IN  /\ Cardinality(IfIndexes(cd)) = Len(ConditionRules(PreOrder(rules)))
           /\ \A i \in IfIndexes(cd) :
                LET last == closingBrace(cd, i + 1, 1) - 1
                IN  /\ last < Len(cd)
                    /\ isReturn(trimIndent(cd[last])) <=> Stops(RuleOfIf(cd, i))
                    /\ Stops(RuleOfIf(cd, i)) =>
                         /\ last > i
                         /\ cd[last] = IndentOf(cd[i]) \o <<"  ", "return;">>
           /\ \A j \in ReturnIndexes(cd) :
                /\ j < Len(cd)
                /\ isClose(trimIndent(cd[j + 1]))
                /\ \E i \in IfIndexes(cd) : closingBrace(cd, i + 1, 1) = j + 1
  /\ (pc \in 1..Len(code) /\ isReturn(statementAt(pc))) =>
       LET rule == RuleOfIf(code, IfOfLast(code, pc))
       IN  /\ Stops(rule)
           /\ Guard(rule, env)
           /\ EndsWith(EventsOf(yielded), ThenEvents(rule, env))
  /\ (finished /\ pc \in 1..Len(code)) => isReturn(statementAt(pc))

\* A run ended by the stop of a rule that nests two rules, after both of
\* them yielded, with a rule of the outer list left.
EarlyExitWitness ==
  /\ finished
  /\ pc \in 1..Len(code)
  /\ isReturn(statementAt(pc))
  /\ Len(rules) = 2
  /\ RuleOfIf(code, IfOfLast(code, pc)) = rules[1]
  /\ isExecuteRules(rules[1].then)
  /\ Len(yielded) = 2
  /\ Guard(rules[2], env)

(***************************************************************************)
(* C12: the checks of a record-event action run in a fixed order, and a    *)
(* failure of a collaborator passes through unchanged.  When the first     *)
(* faulty rule of the tree is a record-event rule, the compile returns:    *)
(* the very value service resolution gave, if that is a diagnostic;        *)
(* otherwise the dot diagnostic, if the event name holds a dot; otherwise  *)
(* the very value the lookup of the targets gave, if that is a diagnostic; *)
(* otherwise the unknown-event diagnostic of the event.  A rule that       *)
(* passes all four has its mapping translated into its yield.              *)
(***************************************************************************)
isDotDiagnostic(res) ==
  res.cody[1] = "Please don't use a dot in the event name of a record:event rule. I found one in the rule: "

RecordEventChecksInOrder ==
  Compiled =>
    LET pre == PreOrder(rules)
        faulty == FaultyIndexes(pre, compiledNode, ctx)
    IN  /\ (faulty # {} /\ IsRecordRule(pre[Min(faulty)])) =>
             LET event == pre[Min(faulty)].then.record.event
             IN  /\ isCodyError(result)
                 /\ IF isCodyError(ctx.service)
                    THEN result = ctx.service
                    ELSE IF HasDot(event)
                    THEN /\ isDotDiagnostic(result)
                         /\ result # compiledNode.lookup
                    ELSE IF isCodyError(compiledNode.lookup)
                    THEN result = compiledNode.lookup
                    ELSE /\ isUnknownEvent(result)
                         /\ unknownEventOf(result) = event
        /\ faulty = {} =>
             /\ Succeeded
             /\ Len(YieldStatements(split(result.value, "\n"))) = Len(RecordRules(pre))

\* A compile of a nested record-event rule that fails every check: the
\* service does not resolve, the event name holds a dot, the lookup fails
\* and no target has the name; the compile returned what service
\* resolution gave.
ChecksInOrderWitness ==
  /\ Failed
  /\ ctx.service = ServiceError
  /\ compiledNode.lookup = LookupError
  /\ result = ServiceError
  /\ LET pre == PreOrder(rules)
         faulty == FaultyIndexes(pre, compiledNode, ctx)
     IN  /\ faulty # {}
         /\ Min(faulty) > 1
         /\ IsRecordRule(pre[Min(faulty)])
         /\ HasDot(pre[Min(faulty)].then.record.event)
         /\ ~Declared(pre[Min(faulty)].then.record.event, compiledNode)

(***************************************************************************)
(* C13: saving the settings on invalid input.  A handleSave that runs      *)
(* while the theme text is not valid JSON leaves the stored configuration  *)
(* as it was: it dispatches neither RENAME_APP nor CHANGE_THEME and writes *)
(* nothing to local storage; it sets the invalid-theme flag and does not   *)
(* call onClose.  A handleSave that calls onClose has dispatched every     *)
(* setting that was changed.                                               *)
(***************************************************************************)
Saving == \E boardId \in { BoardId(b) : b \in BoardIds } \cup {NoBoard} : handleSave(boardId)

Dispatches(type) == \E k \in 1..Len(dispatched') : dispatched'[k].type = type

SaveOnInvalidInput ==
  [][Saving =>
       /\ ~JSONparse(themeOptions).ok =>
            /\ ~Dispatches("RENAME_APP")
            /\ ~Dispatches("CHANGE_THEME")
            /\ config' = config
            /\ written' = <<>>
            /\ storage' = storage
            /\ invalidThemeOptions'
            /\ propsOpen'
       /\ ~propsOpen' =>
            /\ appName # config.appName => Dispatches("RENAME_APP")
            /\ themeOptions # JSONstringify(config.theme, 0) => Dispatches("CHANGE_THEME")]_vars

====
